---- MODULE Spec2Model ----
(***************************************************************************)
(* Cluster health reconciliation of kubefederation:                        *)
(*   controllers/clusterclient.go  NewClusterClientSet, buildClusterConfig, *)
(*                                 GetClusterHealthStatus, Reconcile        *)
(*   api/v1/federatedcluster_types.go, api/v1/common/common.go  the types   *)
(* A pass of Reconcile is a sequence of steps (Get, NewClient, Probe,       *)
(* CompareAndUpdate); passes interleave at these steps with each other and  *)
(* with the environment (clock, other writers of the object).               *)
(***************************************************************************)
EXTENDS Integers, Sequences, FiniteSets, TLC

\* ---------------------------------------------------------------- bounds
\* The clock metav1.Now() reads takes the values 0..MaxTime.
MaxTime == 1

\* ------------------------------------------------------------- constants
\* time.Second*5, the per-request timeout Reconcile hands to the client.
ReconcileTimeout == 5

TokenKey == "token"

ClusterReady == "ClusterReady"
HealthzOk == "/healthz responded with ok"
ClusterNotReady == "ClusterNotReady"
HealthzNotOk == "/healthz responded without ok"
ClusterNotReachableReason == "ClusterNotReachable"
ClusterNotReachableMsg == "cluster is not reachable"
ClusterReachableReason == "ClusterReachable"
ClusterReachableMsg == "cluster is reachable"
ClusterConfigMalformedReason == "ClusterConfigMalformed"
ClusterConfigMalformedMsg == "cluster's configuration may be malformed"

\* common.ClusterConditionType
ConditionReady == "Ready"
ConditionOffline == "Offline"
ConditionConfigMalformed == "ConfigMalformed"

\* apiv1.ConditionStatus
ConditionTrue == "True"
ConditionFalse == "False"

\* ------------------------------------------------------------ input sets
Clusters == {"c1", "c2"}
Passes == {"p1", "p2"}

\* Values of Spec.APIEndpoint: empty, a usable URL, a URL no client can be built for.
UsableEndpoint == "https://member:6443"
MalformedEndpoint == "https://[member"
Endpoints == {"", UsableEndpoint, MalformedEndpoint}

\* Values of Spec.SecretRef.Name.
SecretName == "member-secret"
SecretRefNames == {"", SecretName}

\* What the secret store holds under SecretName: nothing, a secret without the
\* token key, a secret with an empty token, a secret with a token.
SecretCases ==
    { [found |-> FALSE, tokenFound |-> FALSE, token |-> <<>>],
      [found |-> TRUE,  tokenFound |-> FALSE, token |-> <<>>],
      [found |-> TRUE,  tokenFound |-> TRUE,  token |-> <<>>],
      [found |-> TRUE,  tokenFound |-> TRUE,  token |-> <<"t">>] }

\* Response bodies of the member cluster's /healthz, as sequences of characters.
Bodies ==
    { <<"o", "k">>, <<"O", "K">>, <<"O", "k">>, <<"o", "K">>,
      <<>>, <<"o">>, <<"k", "o">>, <<"o", "k", "!">>,
      <<"d", "e", "g", "r", "a", "d", "e", "d">> }

\* What the transport of one GET /healthz yields: (body, err).
Responses ==
    { [body |-> b, err |-> "nil"] : b \in Bodies }
        \cup { [body |-> <<>>, err |-> "ConnectionRefused"],
               [body |-> <<>>, err |-> "Timeout"] }

NoResponse == [body |-> <<>>, err |-> "none"]

\* ----------------------------------------------------------------- types
\* federationv1.FederatedClusterStatus{} (no conditions)
EmptyStatus == [Conditions |-> <<>>]

\* federationv1.FederatedCluster{} (the zero value Reconcile allocates)
ZeroCluster ==
    [Name |-> "",
     Spec |-> [APIEndpoint |-> "", SecretRef |-> [Name |-> ""]],
     Status |-> EmptyStatus]

\* ClusterClient{} before construction
NoClient == [kubeClient |-> "nil", clusterName |-> "", timeout |-> 0]

\* federationv1.ClusterCondition; both time stamps are the one currentTime.
\* Variant of ClusterCondition: only LastProbeTime is stamped, LastTransitionTime
\* is left at the zero time.
ClusterCondition_NoTransitionStamp(type, status, reason, message, currentTime) ==
    [Type |-> type, Status |-> status, Reason |-> reason, Message |-> message,
     LastProbeTime |-> currentTime, LastTransitionTime |-> 0]

ClusterCondition(type, status, reason, message, currentTime) ==
    [Type |-> type, Status |-> status, Reason |-> reason, Message |-> message,
     LastProbeTime |-> currentTime, LastTransitionTime |-> currentTime]

VARIABLES
    store,             \* object store: [Clusters -> [exists, obj]]
    secrets,           \* secret store: what Get(SecretName) yields
    now,               \* the wall clock
    pc,                \* position of each pass of Reconcile
    req,               \* req.NamespacedName of each pass
    federatedCluster,  \* the object each pass loaded
    fresh,             \* the loaded resourceVersion is still the stored one
    clusterClient,     \* the client each pass built
    clusterStatus,     \* the status each pass probed
    err,               \* the error GetClusterHealthStatus returned
    healthz,           \* the response the last probe of each pass received
    result,            \* (ctrl.Result, error) each pass returned
    ctx,               \* the context the scheduler handed to each pass
    trace              \* what each pass did: store reads, clients, requests, writes

vars == <<store, secrets, now, pc, req, federatedCluster, fresh, clusterClient,
          clusterStatus, err, healthz, result, ctx, trace>>

\* ------------------------------------------------------- pure functions
\* unicode.SimpleFold restricted to the letters of Bodies: the lower-case letter.
ToLower(ch) ==
    CASE ch = "O" -> "o"
      [] ch = "K" -> "k"
      [] OTHER -> ch

\* Variant of EqualFold: a byte-wise comparison (s == t).
EqualFold_CaseSensitive(s, t) == s = t

\* strings.EqualFold(s, t): equal under case folding, character by character.
EqualFold(s, t) ==
    /\ Len(s) = Len(t)
    /\ \A i \in 1..Len(s) : ToLower(s[i]) = ToLower(t[i])

\* client.Get(ctx, keyObj, secret) on the secret store.
SecretGet(secretStore, name) ==
    IF name = SecretName /\ secretStore.found
    THEN [secret |-> secretStore, err |-> "nil"]
    ELSE [secret |-> [found |-> FALSE, tokenFound |-> FALSE, token |-> <<>>],
          err |-> "SecretNotFound"]

NilConfig == [Host |-> "", BearerToken |-> <<>>, Timeout |-> 0]

\* Variant of buildClusterConfig: the token is only checked for presence
\* (!tokenFound), not for being empty.
buildClusterConfig_EmptyTokenAccepted(fedCluster, secretStore) ==
    LET apiEndpoint == fedCluster.Spec.APIEndpoint
        secretName == fedCluster.Spec.SecretRef.Name
        got == SecretGet(secretStore, secretName)
    IN  IF apiEndpoint = ""
        THEN [config |-> NilConfig, err |-> "EmptyAPIEndpoint"]
        ELSE IF secretName = ""
        THEN [config |-> NilConfig, err |-> "NoSecretName"]
        ELSE IF got.err # "nil"
        THEN [config |-> NilConfig, err |-> got.err]
        ELSE IF ~got.secret.tokenFound
        THEN [config |-> NilConfig, err |-> "MissingToken"]
        ELSE [config |-> [Host |-> apiEndpoint, BearerToken |-> got.secret.token,
                          Timeout |-> 0],
              err |-> "nil"]

\* buildClusterConfig(fedCluster, client) -> (*restclient.Config, error)
buildClusterConfig(fedCluster, secretStore) ==
    LET apiEndpoint == fedCluster.Spec.APIEndpoint
        secretName == fedCluster.Spec.SecretRef.Name
        got == SecretGet(secretStore, secretName)
    IN  IF apiEndpoint = ""
        THEN [config |-> NilConfig, err |-> "EmptyAPIEndpoint"]
        ELSE IF secretName = ""
        THEN [config |-> NilConfig, err |-> "NoSecretName"]
        ELSE IF got.err # "nil"
        THEN [config |-> NilConfig, err |-> got.err]
        ELSE IF ~got.secret.tokenFound \/ Len(got.secret.token) = 0
        THEN [config |-> NilConfig, err |-> "MissingToken"]
        ELSE [config |-> [Host |-> apiEndpoint, BearerToken |-> got.secret.token,
                          Timeout |-> 0],
              err |-> "nil"]

\* kubeclientset.NewForConfig(config): fails on a host that is no URL.
NewForConfig(config) ==
    IF config.Host = UsableEndpoint
    THEN [kubeClient |-> "clientset", err |-> "nil"]
    ELSE [kubeClient |-> "nil", err |-> "InvalidHost"]

\* NewClusterClientSet(c, client, timeout) -> (*ClusterClient, error): the
\* ClusterClient is returned in every case, with a nil kubeClient on failure.
NewClusterClientSet(c, secretStore, timeout) ==
    LET built == buildClusterConfig(c, secretStore)
        made == NewForConfig([built.config EXCEPT !.Timeout = timeout])
    IN  IF built.err # "nil"
        THEN [client |-> [kubeClient |-> "nil", clusterName |-> c.Name, timeout |-> 0],
              err |-> built.err]
        ELSE [client |-> [kubeClient |-> made.kubeClient, clusterName |-> c.Name,
                          timeout |-> timeout],
              err |-> made.err]

newClusterReadyCondition(currentTime) ==
    ClusterCondition(ConditionReady, ConditionTrue, ClusterReady, HealthzOk, currentTime)

newClusterNotReadyCondition(currentTime) ==
    ClusterCondition(ConditionReady, ConditionFalse, ClusterNotReady, HealthzNotOk,
                     currentTime)

newClusterOfflineCondition(currentTime) ==
    ClusterCondition(ConditionOffline, ConditionTrue, ClusterNotReachableReason,
                     ClusterNotReachableMsg, currentTime)

\* Variant of newClusterNotOfflineCondition: Status copied from the Offline condition.
newClusterNotOfflineCondition_StatusTrue(currentTime) ==
    ClusterCondition(ConditionOffline, ConditionTrue, ClusterReachableReason,
                     ClusterReachableMsg, currentTime)

newClusterNotOfflineCondition(currentTime) ==
    ClusterCondition(ConditionOffline, ConditionFalse, ClusterReachableReason,
                     ClusterReachableMsg, currentTime)

newClusterConfigMalformedCondition(currentTime) ==
    ClusterCondition(ConditionConfigMalformed, ConditionTrue,
                     ClusterConfigMalformedReason, ClusterConfigMalformedMsg, currentTime)

\* Variant of GetClusterHealthStatus: a transport error returns at once, before
\* any condition is appended.
GetClusterHealthStatus_ErrorReturnsEarly(c, currentTime, response) ==
    IF c.kubeClient = "nil"
    THEN [status |-> [Conditions |-> <<newClusterConfigMalformedCondition(currentTime)>>],
          err |-> "nil", requests |-> 0]
    ELSE IF response.err # "nil"
    THEN [status |-> EmptyStatus, err |-> response.err, requests |-> 1]
    ELSE IF ~EqualFold(response.body, <<"o", "k">>)
    THEN [status |-> [Conditions |-> <<newClusterNotReadyCondition(currentTime),
                                       newClusterNotOfflineCondition(currentTime)>>],
          err |-> "nil", requests |-> 1]
    ELSE [status |-> [Conditions |-> <<newClusterReadyCondition(currentTime)>>],
          err |-> "nil", requests |-> 1]

\* (c *ClusterClient) GetClusterHealthStatus() -> (*FederatedClusterStatus, error).
\* currentTime is metav1.Now(); response is what GET /healthz yields when it is
\* issued; requests counts the GETs issued.
GetClusterHealthStatus(c, currentTime, response) ==
    IF c.kubeClient = "nil"
    THEN [status |-> [Conditions |-> <<newClusterConfigMalformedCondition(currentTime)>>],
          err |-> "nil", requests |-> 0]
    ELSE IF response.err # "nil"
    THEN [status |-> [Conditions |-> <<newClusterOfflineCondition(currentTime)>>],
          err |-> response.err, requests |-> 1]
    ELSE IF ~EqualFold(response.body, <<"o", "k">>)
    THEN [status |-> [Conditions |-> <<newClusterNotReadyCondition(currentTime),
                                       newClusterNotOfflineCondition(currentTime)>>],
          err |-> "nil", requests |-> 1]
    ELSE [status |-> [Conditions |-> <<newClusterReadyCondition(currentTime)>>],
          err |-> "nil", requests |-> 1]

\* A Go value together with its dynamic type, as reflect sees it.
PtrTo(status) == [type |-> "*FederatedClusterStatus", value |-> status]
ValueOf(status) == [type |-> "FederatedClusterStatus", value |-> status]

\* reflect.DeepEqual(x, y): values of different types are never deeply equal;
\* pointers are deeply equal when what they point to is.
DeepEqual(x, y) == x.type = y.type /\ x.value = y.value

\* Variant of IgnoreNotFound: the error is handed back as it is.
IgnoreNotFound_Identity(e) == e

\* client.IgnoreNotFound(err)
IgnoreNotFound(e) == IF e = "NotFound" THEN "nil" ELSE e

\* apierrors.IsConflict(err)
IsConflict(e) == e = "Conflict"

\* ------------------------------------------------------------ the transport
\* The context GetClusterHealthStatus hands to Do when the pass runs under
\* passCtx: context.Background(), which nobody cancels.
ProbeContext(passCtx) == "background"

\* Outcomes of ...Get().AbsPath("/healthz").Do(c).Raw(): a request under a
\* cancelled context ends at once with the context's error, any other request
\* ends with the transport's response or its error (the time-out among them).
DoOutcomes(c) ==
    IF c = "cancelled"
    THEN { [body |-> <<>>, err |-> "ContextCanceled"] }
    ELSE Responses

\* --------------------------------------------------------- the object store
\* Variant of ObjectKey: the lookup ignores the request and always names the
\* same object.
ObjectKey_FirstCluster(request) == "c1"

\* req.NamespacedName: the key under which Get looks the object up is the one
\* the request names.
ObjectKey(request) == request

\* Outcomes of r.Get(ctx, req.NamespacedName, federatedCluster).
GetOutcomes(c) ==
    IF store[c].exists THEN {"nil", "ServerError"} ELSE {"NotFound", "ServerError"}

\* Variant of UpdateOutcomes: the write does not carry the loaded
\* resourceVersion, the store accepts it from any pass.
UpdateOutcomes_NoVersionCheck(c, isFresh) ==
    IF ~store[c].exists THEN {"NotFound"}
    ELSE {"nil", "ServerError"}

\* Outcomes of r.Status().Update(ctx, federatedCluster): the store accepts the
\* write only from a pass whose loaded resourceVersion is the stored one.
UpdateOutcomes(c, isFresh) ==
    IF ~store[c].exists THEN {"NotFound"}
    ELSE IF ~isFresh THEN {"Conflict", "ServerError"}
    ELSE {"nil", "ServerError"}

\* ------------------------------------------------------- steps of Reconcile
NoResult == [Requeue |-> FALSE, err |-> "pending"]

NoTrace ==
    [get |-> "none", clients |-> 0, clientErr |-> "nil", requests |-> 0,
     probeErr |-> "nil", updates |-> 0, update |-> "none"]

\* return ctrl.Result{}, client.IgnoreNotFound(err)
GetFailedResult(e) == [Requeue |-> FALSE, err |-> IgnoreNotFound(e)]

\* return ctrl.Result{}, err
NewClientFailedResult(e) == [Requeue |-> FALSE, err |-> e]

\* !reflect.DeepEqual(clusterStatus, federatedCluster.Status): clusterStatus is
\* the *FederatedClusterStatus the probe returned, federatedCluster.Status a
\* FederatedClusterStatus value.
StatusDiffers(probed, loaded) == ~DeepEqual(PtrTo(probed), ValueOf(loaded))

\* Variant of AssignStatus: the probed conditions are appended to the loaded ones.
AssignStatus_Appends(obj, status) ==
    [obj EXCEPT !.Status.Conditions = @ \o status.Conditions]

\* federatedCluster.Status = *clusterStatus
AssignStatus(obj, status) == [obj EXCEPT !.Status = status]

\* Variant of UpdateResult: a conflict is logged like any other failure.
UpdateResult_NeverRequeues(e) == [Requeue |-> FALSE, err |-> "nil"]

\* Variant of UpdateResult: a failure other than a conflict is returned.
UpdateResult_ReturnsError(e) ==
    IF e # "nil" /\ IsConflict(e)
    THEN [Requeue |-> TRUE, err |-> "nil"]
    ELSE [Requeue |-> FALSE, err |-> e]

\* What Reconcile returns after r.Status().Update returned e.
UpdateResult(e) ==
    IF e # "nil" /\ IsConflict(e)
    THEN [Requeue |-> TRUE, err |-> "nil"]
    ELSE [Requeue |-> FALSE, err |-> "nil"]

\* Variant of UpdateAttempts: a conflicting write is tried once more in the pass.
UpdateAttempts_RetriesConflict(e) == IF IsConflict(e) THEN 2 ELSE 1

\* The calls of r.Status().Update the write branch makes when the call
\* returns e: the one call, there is no loop around it.
UpdateAttempts(e) == 1

\* The locals of a pass go out of scope when Reconcile returns.
Return(p, res) ==
    /\ pc' = [pc EXCEPT ![p] = "done"]
    /\ result' = [result EXCEPT ![p] = res]
    /\ federatedCluster' = [federatedCluster EXCEPT ![p] = ZeroCluster]
    /\ clusterClient' = [clusterClient EXCEPT ![p] = NoClient]
    /\ clusterStatus' = [clusterStatus EXCEPT ![p] = EmptyStatus]
    /\ err' = [err EXCEPT ![p] = "nil"]
    /\ healthz' = [healthz EXCEPT ![p] = NoResponse]

\* The scheduler invokes Reconcile(ctx, req) for cluster c.
Start(p, c) ==
    /\ pc[p] \in {"idle", "done"}
    /\ pc' = [pc EXCEPT ![p] = "get"]
    /\ req' = [req EXCEPT ![p] = c]
    /\ result' = [result EXCEPT ![p] = NoResult]
    /\ trace' = [trace EXCEPT ![p] = NoTrace]
    /\ ctx' = [ctx EXCEPT ![p] = "live"]
    /\ UNCHANGED <<store, secrets, now, federatedCluster, fresh, clusterClient,
                   clusterStatus, err, healthz>>

\* r.Get(ctx, req.NamespacedName, federatedCluster)
Get(p) ==
    /\ pc[p] = "get"
    /\ \E e \in GetOutcomes(ObjectKey(req[p])) :
        /\ trace' = [trace EXCEPT ![p].get = e]
        /\ IF e # "nil"
           THEN /\ Return(p, GetFailedResult(e))
                /\ UNCHANGED fresh
           ELSE /\ federatedCluster' = [federatedCluster EXCEPT
                                         ![p] = store[ObjectKey(req[p])].obj]
                /\ fresh' = [fresh EXCEPT ![p] = TRUE]
                /\ pc' = [pc EXCEPT ![p] = "newclient"]
                /\ UNCHANGED <<result, clusterClient, clusterStatus, err, healthz>>
    /\ UNCHANGED <<store, secrets, now, req, ctx>>

\* clusterClient, err := NewClusterClientSet(federatedCluster, r.Client, time.Second*5)
NewClient(p) ==
    /\ pc[p] = "newclient"
    /\ LET made == NewClusterClientSet(federatedCluster[p], secrets, ReconcileTimeout)
       IN  /\ trace' = [trace EXCEPT ![p].clients = @ + 1, ![p].clientErr = made.err]
           /\ IF made.err # "nil"
              THEN /\ Return(p, NewClientFailedResult(made.err))
                   /\ fresh' = [fresh EXCEPT ![p] = FALSE]
              ELSE /\ clusterClient' = [clusterClient EXCEPT ![p] = made.client]
                   /\ pc' = [pc EXCEPT ![p] = "probe"]
                   /\ UNCHANGED <<result, federatedCluster, fresh, clusterStatus, err,
                                  healthz>>
    /\ UNCHANGED <<store, secrets, now, req, ctx>>

\* clusterStatus, err := clusterClient.GetClusterHealthStatus()
Probe(p) ==
    /\ pc[p] = "probe"
    /\ \E response \in DoOutcomes(ProbeContext(ctx[p])) :
        LET got == GetClusterHealthStatus(clusterClient[p], now, response)
        IN  /\ clusterStatus' = [clusterStatus EXCEPT ![p] = got.status]
            /\ err' = [err EXCEPT ![p] = got.err]
            /\ healthz' = [healthz EXCEPT ![p] = response]
            /\ trace' = [trace EXCEPT ![p].requests = @ + got.requests,
                                      ![p].probeErr = got.err]
    /\ pc' = [pc EXCEPT ![p] = "update"]
    /\ UNCHANGED <<store, secrets, now, req, federatedCluster, fresh, clusterClient,
                   result, ctx>>

\* if !reflect.DeepEqual(...) { federatedCluster.Status = *clusterStatus;
\*   r.Status().Update(ctx, federatedCluster, ...) ... }; return
\* The write goes to the object the pass loaded (its name is its key).
CompareAndUpdate(p) ==
    /\ pc[p] = "update"
    /\ LET c == federatedCluster[p].Name
       IN  IF StatusDiffers(clusterStatus[p], federatedCluster[p].Status)
           THEN \E e \in UpdateOutcomes(c, fresh[p]) :
                   LET updated == AssignStatus(federatedCluster[p], clusterStatus[p])
                   IN  /\ store' = IF e = "nil"
                                   THEN [store EXCEPT ![c].obj.Status = updated.Status]
                                   ELSE store
                       /\ fresh' = [q \in Passes |->
                                      IF q = p \/ (e = "nil" /\ req[q] = c)
                                      THEN FALSE ELSE fresh[q]]
                       /\ trace' = [trace EXCEPT ![p].updates = @ + UpdateAttempts(e),
                                                 ![p].update = e]
                       /\ Return(p, UpdateResult(e))
           ELSE /\ Return(p, [Requeue |-> FALSE, err |-> "nil"])
                /\ fresh' = [fresh EXCEPT ![p] = FALSE]
                /\ UNCHANGED <<store, trace>>
    /\ UNCHANGED <<secrets, now, req, ctx>>

\* ---------------------------------------------------------- the environment
\* metav1.Now() advances.
Tick ==
    /\ now < MaxTime
    /\ now' = now + 1
    /\ UNCHANGED <<store, secrets, pc, req, federatedCluster, fresh, clusterClient,
                   clusterStatus, err, healthz, result, ctx, trace>>

\* Another writer (an operator editing the object's metadata) updates the
\* stored object of c: its resourceVersion changes under the passes that loaded it.
ModifyObject(c) ==
    /\ store[c].exists
    /\ \E q \in Passes : req[q] = c /\ fresh[q]
    /\ fresh' = [q \in Passes |-> IF req[q] = c THEN FALSE ELSE fresh[q]]
    /\ UNCHANGED <<store, secrets, now, pc, req, federatedCluster, clusterClient,
                   clusterStatus, err, healthz, result, ctx, trace>>

\* The scheduler cancels the context of pass p (shutdown) while the pass waits
\* in GetClusterHealthStatus for its GET /healthz.
Cancel(p) ==
    /\ pc[p] = "probe"
    /\ ctx[p] = "live"
    /\ ctx' = [ctx EXCEPT ![p] = "cancelled"]
    /\ UNCHANGED <<store, secrets, now, pc, req, federatedCluster, fresh,
                   clusterClient, clusterStatus, err, healthz, result, trace>>

\* ------------------------------------------------------------ specification
\* A stored cluster object with descriptor (endpoint, secretName) and no status.
NewCluster(name, endpoint, secretName) ==
    [Name |-> name,
     Spec |-> [APIEndpoint |-> endpoint, SecretRef |-> [Name |-> secretName]],
     Status |-> EmptyStatus]

\* c1 is stored with some descriptor and no status yet; c2 was deleted.
Init ==
    /\ \E endpoint \in Endpoints, secretName \in SecretRefNames :
          store = [c \in Clusters |->
                     IF c = "c1"
                     THEN [exists |-> TRUE, obj |-> NewCluster(c, endpoint, secretName)]
                     ELSE [exists |-> FALSE, obj |-> ZeroCluster]]
    /\ secrets \in SecretCases
    /\ now = 0
    /\ pc = [p \in Passes |-> "idle"]
    /\ req = [p \in Passes |-> "c1"]
    /\ federatedCluster = [p \in Passes |-> ZeroCluster]
    /\ fresh = [p \in Passes |-> FALSE]
    /\ clusterClient = [p \in Passes |-> NoClient]
    /\ clusterStatus = [p \in Passes |-> EmptyStatus]
    /\ err = [p \in Passes |-> "nil"]
    /\ healthz = [p \in Passes |-> NoResponse]
    /\ result = [p \in Passes |-> NoResult]
    /\ ctx = [p \in Passes |-> "live"]
    /\ trace = [p \in Passes |-> NoTrace]

Next ==
    \/ \E p \in Passes, c \in Clusters : Start(p, c)
    \/ \E p \in Passes : Get(p)
    \/ \E p \in Passes : NewClient(p)
    \/ \E p \in Passes : Probe(p)
    \/ \E p \in Passes : CompareAndUpdate(p)
    \/ Tick
    \/ \E c \in Clusters : ModifyObject(c)

Spec == Init /\ [][Next]_vars

\* Reconcile for two stored clusters: c1 with a usable descriptor, c2 with any
\* endpoint, the credential of both in the secret store; no status yet.
MultiInit ==
    /\ \E endpoint \in Endpoints :
          store = [c \in Clusters |->
                     [exists |-> TRUE,
                      obj |-> NewCluster(c, IF c = "c1" THEN UsableEndpoint ELSE endpoint,
                                         SecretName)]]
    /\ secrets = [found |-> TRUE, tokenFound |-> TRUE, token |-> <<"t">>]
    /\ now = 0
    /\ pc = [p \in Passes |-> "idle"]
    /\ req = [p \in Passes |-> "c1"]
    /\ federatedCluster = [p \in Passes |-> ZeroCluster]
    /\ fresh = [p \in Passes |-> FALSE]
    /\ clusterClient = [p \in Passes |-> NoClient]
    /\ clusterStatus = [p \in Passes |-> EmptyStatus]
    /\ err = [p \in Passes |-> "nil"]
    /\ healthz = [p \in Passes |-> NoResponse]
    /\ result = [p \in Passes |-> NoResult]
    /\ ctx = [p \in Passes |-> "live"]
    /\ trace = [p \in Passes |-> NoTrace]

\* The passes and the other writers; the clock stands still, no step of these
\* reads it across clusters.
MultiNext ==
    \/ \E p \in Passes, c \in Clusters : Start(p, c)
    \/ \E p \in Passes : Get(p)
    \/ \E p \in Passes : NewClient(p)
    \/ \E p \in Passes : Probe(p)
    \/ \E p \in Passes : CompareAndUpdate(p)
    \/ \E c \in Clusters : ModifyObject(c)

MultiSpec == MultiInit /\ [][MultiNext]_vars

\* Reconcile under a scheduler that may cancel the context of a running pass.
CancelNext ==
    \/ \E p \in Passes, c \in Clusters : Start(p, c)
    \/ \E p \in Passes : Get(p)
    \/ \E p \in Passes : NewClient(p)
    \/ \E p \in Passes : Probe(p)
    \/ \E p \in Passes : CompareAndUpdate(p)
    \/ Tick
    \/ \E c \in Clusters : ModifyObject(c)
    \/ \E p \in Passes : Cancel(p)

CancelSpec == Init /\ [][CancelNext]_vars

\* A running pass p takes its next step.
Step(p) == Get(p) \/ NewClient(p) \/ Probe(p) \/ CompareAndUpdate(p)

\* The store answers the read of pass p.
GetOk(p) == Get(p) /\ trace'[p].get = "nil"

\* The store accepts the status write of pass p.
UpdateOk(p) == CompareAndUpdate(p) /\ trace'[p].update = "nil"

\* Reconcile of the stored cluster c1 once other writers have stopped: the
\* scheduler keeps invoking Reconcile for c1 (requeue, resync).
LiveNext ==
    \/ \E p \in Passes : Start(p, "c1")
    \/ \E p \in Passes : Get(p)
    \/ \E p \in Passes : NewClient(p)
    \/ \E p \in Passes : Probe(p)
    \/ \E p \in Passes : CompareAndUpdate(p)
    \/ Tick

\* Fairness: a returned pass is invoked again, a running pass goes on, and the
\* store does not fail for ever.
LiveSpec ==
    /\ Init
    /\ [][LiveNext]_vars
    /\ \A p \in Passes :
          /\ WF_vars(Start(p, "c1"))
          /\ WF_vars(Step(p))
          /\ SF_vars(GetOk(p))
          /\ SF_vars(UpdateOk(p))

\* ---------------------------------------------------------------- the Prober
\* One call of the Prober on the descriptor of stored cluster c:
\* NewClusterClientSet, then GetClusterHealthStatus on the client it returned.
ProberCall(p, c) ==
    /\ store[c].exists
    /\ pc[p] = "idle"
    /\ \E response \in Responses :
        LET made == NewClusterClientSet(store[c].obj, secrets, ReconcileTimeout)
            got == GetClusterHealthStatus(made.client, now, response)
        IN  /\ req' = [req EXCEPT ![p] = c]
            /\ clusterClient' = [clusterClient EXCEPT ![p] = made.client]
            /\ clusterStatus' = [clusterStatus EXCEPT ![p] = got.status]
            /\ err' = [err EXCEPT ![p] = got.err]
            /\ healthz' = [healthz EXCEPT ![p] = response]
            /\ trace' = [trace EXCEPT ![p] =
                            [NoTrace EXCEPT !.clients = 1, !.clientErr = made.err,
                                            !.requests = got.requests,
                                            !.probeErr = got.err]]
    /\ UNCHANGED <<store, secrets, now, pc, federatedCluster, fresh, result, ctx>>

ProberNext ==
    \/ \E p \in Passes, c \in Clusters : ProberCall(p, c)
    \/ Tick

\* The Prober alone, on every descriptor and credential of Init.
ProberSpec == Init /\ [][ProberNext]_vars

\* ------------------------------------------------------------------ claims
\* The condition cond has the given type, status, reason and message.
HasFields(cond, type, status, reason, message) ==
    /\ cond.Type = type
    /\ cond.Status = status
    /\ cond.Reason = reason
    /\ cond.Message = message

\* The bodies that equal "ok" when case is ignored.
OkBodies == { <<"o", "k">>, <<"O", "K">>, <<"O", "k">>, <<"o", "K">> }

\* Pass p takes its compare-and-write step and returns.
CompareStep(p) == pc[p] = "update" /\ pc'[p] = "done"

\* Pass p issued a GET /healthz whose transport answered with healthz[p].
Requested(p) == trace[p].requests = 1

\* C1: a pass whose probed status structurally equals the status already stored
\* on the object it loaded performs no status write and returns no requeue signal.
C1_EqualStatusNoWrite ==
    [][\A p \in Passes :
          (CompareStep(p) /\ clusterStatus[p] = federatedCluster[p].Status)
              => /\ trace'[p].updates = 0
                 /\ store' = store
                 /\ ~result'[p].Requeue]_vars

\* C2: a pass whose Prober failed (no client could be built, or the member
\* cluster was unreachable) has still issued the status write and returned a
\* nil error.
C2_ProbeFailureStillPersisted ==
    \A p \in Passes :
        (pc[p] = "done" /\ (trace[p].clientErr # "nil" \/ trace[p].probeErr # "nil"))
            => /\ trace[p].updates = 1
               /\ result[p].err = "nil"

\* C3: a pass whose status write was rejected with a conflict returned
\* (Requeue, nil) and issued one probe and one write, no more.
C3_ConflictRequeues ==
    \A p \in Passes :
        (pc[p] = "done" /\ trace[p].update = "Conflict")
            => /\ result[p] = [Requeue |-> TRUE, err |-> "nil"]
               /\ trace[p].requests = 1
               /\ trace[p].updates = 1

C3_Witness ==
    \E p \in Passes : pc[p] = "done" /\ trace[p].update = "Conflict" /\ result[p].Requeue

\* No usable client can be built from descriptor obj and the stored credential.
UnusableInput(obj, secretStore) ==
    \/ obj.Spec.APIEndpoint = ""
    \/ obj.Spec.SecretRef.Name = ""
    \/ ~secretStore.found
    \/ ~secretStore.tokenFound
    \/ secretStore.token = <<>>

\* C4: on a descriptor or credential no client can be built from, the Prober
\* yields exactly one condition, ConfigMalformed=True with its reason and
\* message, and issues no liveness request.
C4_UnusableConfigMalformed ==
    \A p \in Passes :
        (trace[p].clients = 1 /\ UnusableInput(store[req[p]].obj, secrets))
            => /\ Len(clusterStatus[p].Conditions) = 1
               /\ HasFields(clusterStatus[p].Conditions[1], "ConfigMalformed", "True",
                            "ClusterConfigMalformed",
                            "cluster's configuration may be malformed")
               /\ trace[p].requests = 0

C4_Witness ==
    \E p \in Passes :
        /\ trace[p].clients = 1
        /\ store[req[p]].obj.Spec.APIEndpoint = UsableEndpoint
        /\ store[req[p]].obj.Spec.SecretRef.Name = SecretName
        /\ secrets.found /\ secrets.tokenFound /\ secrets.token = <<>>
        /\ Len(clusterStatus[p].Conditions) = 1
        /\ clusterStatus[p].Conditions[1].Type = "ConfigMalformed"

\* C5: a probe whose transport succeeds with a body equal to "ok", case
\* ignored, yields exactly one condition, Ready=True with its reason and
\* message, and a nil error.
C5_OkBodyReady ==
    \A p \in Passes :
        (Requested(p) /\ healthz[p].err = "nil" /\ healthz[p].body \in OkBodies)
            => /\ Len(clusterStatus[p].Conditions) = 1
               /\ HasFields(clusterStatus[p].Conditions[1], "Ready", "True",
                            "ClusterReady", "/healthz responded with ok")
               /\ err[p] = "nil"

C5_Witness ==
    \E p \in Passes :
        /\ Requested(p) /\ healthz[p].err = "nil" /\ healthz[p].body = <<"O", "K">>
        /\ clusterStatus[p].Conditions[1].Type = "Ready"

\* C6: a probe whose transport succeeds with a body that is not "ok", case
\* ignored, yields exactly two conditions in this order: Ready=False
\* (ClusterNotReady), then Offline=False (ClusterReachable).
C6_OtherBodyNotReady ==
    \A p \in Passes :
        (Requested(p) /\ healthz[p].err = "nil" /\ healthz[p].body \notin OkBodies)
            => /\ Len(clusterStatus[p].Conditions) = 2
               /\ clusterStatus[p].Conditions[1].Type = "Ready"
               /\ clusterStatus[p].Conditions[1].Status = "False"
               /\ clusterStatus[p].Conditions[1].Reason = "ClusterNotReady"
               /\ clusterStatus[p].Conditions[2].Type = "Offline"
               /\ clusterStatus[p].Conditions[2].Status = "False"
               /\ clusterStatus[p].Conditions[2].Reason = "ClusterReachable"

C6_Witness ==
    \E p \in Passes :
        /\ Requested(p) /\ healthz[p].err = "nil"
        /\ healthz[p].body = <<"d", "e", "g", "r", "a", "d", "e", "d">>
        /\ Len(clusterStatus[p].Conditions) = 2

\* C7: a probe whose transport fails yields exactly one condition,
\* Offline=True with its reason and message, together with the transport's
\* non-nil error.
C7_TransportErrorOffline ==
    \A p \in Passes :
        (Requested(p) /\ healthz[p].err # "nil")
            => /\ Len(clusterStatus[p].Conditions) = 1
               /\ HasFields(clusterStatus[p].Conditions[1], "Offline", "True",
                            "ClusterNotReachable", "cluster is not reachable")
               /\ err[p] # "nil"
               /\ err[p] = healthz[p].err

C7_Witness ==
    \E p \in Passes :
        /\ Requested(p) /\ healthz[p].err = "Timeout"
        /\ Len(clusterStatus[p].Conditions) = 1
        /\ err[p] = "Timeout"

\* C8: when the status write of a pass succeeds, the status stored for its
\* cluster is the status the Prober produced in that pass, whatever was stored.
C8_WrittenStatusIsProbed ==
    [][\A p \in Passes :
          (CompareStep(p) /\ trace'[p].update = "nil")
              => store'[req[p]].obj.Status = clusterStatus[p]]_vars

\* Both passes wrote the status of the same cluster with success: the later
\* write replaced a status that was already stored.
C8_Witness ==
    /\ \A p \in Passes : pc[p] = "done" /\ trace[p].update = "nil" /\ req[p] = "c1"
    /\ Len(store["c1"].obj.Status.Conditions) > 0

\* C9: a pass whose cluster object is not found returned (no requeue, nil), and
\* built no client, issued no probe and no store write.
C9_NotFoundNoOp ==
    \A p \in Passes :
        (pc[p] = "done" /\ trace[p].get = "NotFound")
            => /\ result[p] = [Requeue |-> FALSE, err |-> "nil"]
               /\ trace[p].clients = 0
               /\ trace[p].requests = 0
               /\ trace[p].updates = 0

C9_Witness ==
    \E p \in Passes :
        pc[p] = "done" /\ trace[p].get = "NotFound" /\ result[p].err = "nil"

\* C10: when the status write of a pass fails with an error other than a
\* conflict, the pass returns (no requeue, nil) and the store is as before.
C10_OtherWriteFailureSwallowed ==
    [][\A p \in Passes :
          (CompareStep(p) /\ trace'[p].update \notin {"none", "nil", "Conflict"})
              => /\ result'[p] = [Requeue |-> FALSE, err |-> "nil"]
                 /\ store' = store]_vars

C10_Witness ==
    \E p \in Passes :
        /\ pc[p] = "done" /\ trace[p].update = "ServerError"
        /\ result[p] = [Requeue |-> FALSE, err |-> "nil"]

\* C11: when the context of a pass is cancelled while its probe is in flight,
\* the pass leaves the probing step because of the cancellation (the probe ends
\* with the context's error), not because the response or the time-out arrived.
C11_CancelAbortsProbe ==
    [][\A p \in Passes :
          (pc[p] = "probe" /\ ctx[p] = "cancelled" /\ pc'[p] # "probe")
              => trace'[p].probeErr = "ContextCanceled"]_vars

\* C12: what is stored changes only by the status write of a pass's
\* compare-and-write step, for the cluster of that pass and in its status
\* alone; a pass issues at most one write attempt; the stored specs, the set of
\* stored objects and the credential never change.
C12_OnlyTheStatusWrite ==
    [][/\ secrets' = secrets
       /\ \A c \in Clusters :
            /\ store'[c].exists = store[c].exists
            /\ store'[c].obj.Name = store[c].obj.Name
            /\ store'[c].obj.Spec = store[c].obj.Spec
            /\ store'[c] # store[c]
                 => \E p \in Passes :
                       CompareStep(p) /\ req[p] = c /\ trace'[p].update = "nil"
       /\ \A p \in Passes :
            /\ trace'[p].updates <= 1
            /\ trace'[p].updates # trace[p].updates
                 => (CompareStep(p) \/ trace'[p].updates = 0)]_vars

\* A pass has written the status of its cluster, once, and the descriptor it
\* loaded is still the stored one.
C12_Witness ==
    \E p \in Passes :
        /\ pc[p] = "done" /\ trace[p].updates = 1 /\ trace[p].update = "nil"
        /\ store[req[p]].obj.Status # EmptyStatus
        /\ store[req[p]].obj.Spec.APIEndpoint = UsableEndpoint
        /\ secrets.token = <<"t">>

\* The condition set of a status: the types and statuses of its conditions, in
\* order, without time stamps, reasons and messages.
Shape(status) ==
    [i \in 1..Len(status.Conditions) |->
        <<status.Conditions[i].Type, status.Conditions[i].Status>>]

\* C13: the stored status of a cluster changes only in the compare-and-write
\* step of a pass whose probe outcome (its condition set) differs from the
\* stored one, and every pass whose probe outcome differs from the stored one
\* attempts a status write in that step.
C13_ChangeOnlyOnDifferentOutcome ==
    [][/\ \A c \in Clusters :
            store'[c].obj.Status # store[c].obj.Status
                => \E p \in Passes :
                      /\ CompareStep(p) /\ req[p] = c
                      /\ Shape(clusterStatus[p]) # Shape(store[c].obj.Status)
       /\ \A p \in Passes :
            (CompareStep(p) /\ Shape(clusterStatus[p]) # Shape(store[req[p]].obj.Status))
                => trace'[p].updates = 1]_vars

\* The condition sets a probe outcome is classified into.
ConfigMalformedShape == << <<"ConfigMalformed", "True">> >>
OfflineShape == << <<"Offline", "True">> >>
NotReadyShape == << <<"Ready", "False">>, <<"Offline", "False">> >>
ReadyShape == << <<"Ready", "True">> >>

\* Pass p has just returned from a successful status write and the stored
\* condition set is the classification of what p probed.
Converged(p) ==
    /\ pc[p] = "done"
    /\ trace[p].update = "nil"
    /\ LET shape == Shape(store[req[p]].obj.Status)
       IN  IF trace[p].clientErr # "nil" THEN shape = ConfigMalformedShape
           ELSE IF trace[p].probeErr # "nil" THEN shape = OfflineShape
           ELSE shape \in {NotReadyShape, ReadyShape}

\* C14: for a stored cluster object, under a fair scheduler and once other
\* writers have stopped, eventually the status write of a pass succeeds and
\* the stored condition set is the classification of that pass's probe outcome.
C14_Converges == <>(\E p \in Passes : Converged(p))

\* The same for the clusters a client can be built for.
C14_UsableConverges ==
    (buildClusterConfig(store["c1"].obj, secrets).err = "nil"
        /\ store["c1"].obj.Spec.APIEndpoint = UsableEndpoint)
            => <>(\E p \in Passes : Converged(p))

\* C15: a pass whose loaded version of the object has since been modified
\* never changes the stored status: the store does not accept its write, a
\* write rejected as a conflict returns (Requeue, nil), and whenever the stored
\* status changes it becomes the status probed by a pass that had loaded the
\* latest version.
C15_StalePassNeverOverwrites ==
    [][/\ \A p \in Passes :
            (CompareStep(p) /\ ~fresh[p])
                => /\ store' = store
                   /\ trace'[p].update # "nil"
                   /\ trace'[p].update = "Conflict"
                        => result'[p] = [Requeue |-> TRUE, err |-> "nil"]
       /\ \A c \in Clusters :
            store'[c].obj.Status # store[c].obj.Status
                => \E p \in Passes :
                      /\ CompareStep(p) /\ req[p] = c /\ fresh[p]
                      /\ store'[c].obj.Status = clusterStatus[p]]_vars

\* Two passes for one cluster overlapped: one wrote the status, the write of
\* the other was rejected as a conflict and it returned the requeue signal.
C15_Witness ==
    \E p \in Passes, q \in Passes :
        /\ p # q /\ req[p] = req[q]
        /\ pc[p] = "done" /\ trace[p].update = "Conflict" /\ result[p].Requeue
        /\ pc[q] = "done" /\ trace[q].update = "nil"
        /\ Len(store[req[q]].obj.Status.Conditions) > 0

\* The locals of pass q.
Locals(q) ==
    <<pc[q], req[q], federatedCluster[q], fresh[q], clusterClient[q],
      clusterStatus[q], err[q], healthz[q], result[q], trace[q]>>

\* C16: passes for different clusters do not interfere. A step of a pass for
\* cluster X loads the stored object of X and nothing else, changes the store
\* at X only, and leaves every local of a pass for another cluster as it was
\* (its loaded version stays the latest one, so its write is not rejected
\* because of X): each cluster's stored status is the one its own passes wrote.
C16_ClustersIndependent ==
    [][\A p \in Passes :
         pc'[p] # pc[p]
            => /\ \A c \in Clusters \ {req'[p]} : store'[c] = store[c]
               /\ \A q \in Passes \ {p} :
                     req[q] # req'[p] => Locals(q)' = Locals(q)
               /\ (pc[p] = "get" /\ trace'[p].get = "nil")
                     => federatedCluster'[p] = store[req[p]].obj
               /\ store'[req[p]].obj.Status # store[req[p]].obj.Status
                     => store'[req[p]].obj.Status = clusterStatus[p]]_vars

\* Passes for the two clusters overlapped and both wrote: each cluster stores
\* the classification of its own probe, and the two differ.
C16_Witness ==
    /\ \A p \in Passes : pc[p] = "done" /\ trace[p].update = "nil"
    /\ req["p1"] = "c1" /\ req["p2"] = "c2"
    /\ Shape(store["c1"].obj.Status) = ReadyShape
    /\ Shape(store["c2"].obj.Status) = OfflineShape

FourShapes == {ConfigMalformedShape, OfflineShape, NotReadyShape, ReadyShape}

\* C18: the status a pass has probed and every status stored by a write has
\* one of the four shapes [ConfigMalformed=True], [Offline=True],
\* [Ready=False, Offline=False], [Ready=True]; no condition has a Status other
\* than True or False.
C18_FourShapes ==
    /\ \A p \in Passes :
          /\ pc[p] = "update" => Shape(clusterStatus[p]) \in FourShapes
          /\ clusterStatus[p] # EmptyStatus => Shape(clusterStatus[p]) \in FourShapes
    /\ \A c \in Clusters :
          /\ store[c].obj.Status # EmptyStatus
                => Shape(store[c].obj.Status) \in FourShapes
          /\ \A i \in 1..Len(store[c].obj.Status.Conditions) :
                store[c].obj.Status.Conditions[i].Status \in {"True", "False"}

\* A two-condition status was written to the store and another pass has
\* probed Ready=True and is about to write it.
C18_Witness ==
    /\ Shape(store["c1"].obj.Status) = NotReadyShape
    /\ \E p \in Passes :
          pc[p] = "update" /\ req[p] = "c1" /\ Shape(clusterStatus[p]) = ReadyShape

\* C19: a returned pass never carries both Requeue and a non-nil error; it
\* carries Requeue only after its status write was rejected as a conflict; it
\* carries a non-nil error only when Get failed with an error other than
\* NotFound or when no client could be constructed, and then it has attempted
\* no status write.
C19_ReturnValues ==
    \A p \in Passes :
        pc[p] = "done"
            => /\ ~(result[p].Requeue /\ result[p].err # "nil")
               /\ result[p].Requeue => trace[p].update = "Conflict"
               /\ result[p].err # "nil"
                    => /\ \/ trace[p].get \notin {"nil", "NotFound"}
                          \/ (trace[p].get = "nil" /\ trace[p].clientErr # "nil")
                       /\ trace[p].updates = 0
                       /\ trace[p].update = "none"

\* One pass returned the requeue signal after a conflict, the other returned
\* the error of a failed Get, having written nothing.
C19_Witness ==
    \E p \in Passes, q \in Passes :
        /\ pc[p] = "done" /\ result[p] = [Requeue |-> TRUE, err |-> "nil"]
        /\ trace[p].update = "Conflict"
        /\ pc[q] = "done" /\ ~result[q].Requeue /\ result[q].err # "nil"
        /\ trace[q].get = "ServerError" /\ result[q].err = "ServerError"
        /\ trace[q].updates = 0

====
